---------------------------- MODULE Spec2Model ----------------------------
(***************************************************************************)
(* Model of the arcade-review API server (src/server.js).                  *)
(*                                                                         *)
(* State: the three tables (users, arcades, comments) with their id        *)
(* sequences, the wall clock, the session tokens that clients still hold,  *)
(* the register handlers suspended between their SELECT and their INSERT,  *)
(* and the last response sent.                                             *)
(*                                                                         *)
(* Every route that issues one SQL statement is one action.  The register  *)
(* handler issues two statements with awaits in between (SELECT, bcrypt,   *)
(* INSERT) and is two actions, so that handlers of concurrent requests     *)
(* interleave there.  The login handler reads once and then only computes. *)
(*                                                                         *)
(* Not in src/: ./authMiddleware (line 8) and the database schema.  Both   *)
(* are modelled from the specification: the gate verifies a bearer token   *)
(* and rejects the request otherwise; users.email is unique, comments are  *)
(* foreign-keyed to users and arcades, comments.rating is NOT NULL.  The   *)
(* specification names no cascade on deleting a referenced arcade, so the  *)
(* foreign key has the default action and the DELETE raises.               *)
(*                                                                         *)
(* JavaScript undefined in a text field is the value Undefined, in a       *)
(* numeric field UndefinedNum; the driver sends both as SQL NULL.          *)
(* comments.created_at is not modelled: no statement of a handler          *)
(* modelled here changes it and it only orders the profile listing.        *)
(***************************************************************************)
EXTENDS Integers, FiniteSets, Sequences, TLC

\* ---------------------------------------------------------------- bounds
MaxUserSeq == 2        \* values drawn from the users id sequence
MaxArcadeSeq == 2      \* values drawn from the arcades id sequence
MaxCommentSeq == 2     \* values drawn from the comments id sequence
MaxTicks == 2          \* advances of the clock
MaxTokens == 2         \* session tokens clients keep at a time
MaxInflight == 2       \* register handlers suspended at a time
MaxRated == 3          \* comments in the databases the arcade list is read over

\* ------------------------------------------------------ program constants
ExpiresIn == 3600      \* expiresIn: '1h', in seconds
SaltRounds == 10       \* bcrypt.genSalt(10)

Undefined == "<undefined>"
UndefinedNum == -1

JWT_SECRET == "secret"

\* ---------------------------------------------------------------- inputs
Usernames == {"ann", ""}
Emails == {"a@x", "b@x", ""}
Passwords == {"pw1", ""}
Guesses == {"pw1", "pw2", ""}
Salts == {"s1", "s2"}
Advance == {1, ExpiresIn - 1}

ArcadeBodies ==
  { [name |-> "Barcade", address |-> "148 W 24th", days_open |-> "Mon-Sun",
     hours_of_operation |-> "12-02", serves_alcohol |-> TRUE],
    [name |-> "Chinatown Fair", address |-> "8 Mott St", days_open |-> "Mon-Fri",
     hours_of_operation |-> "11-20", serves_alcohol |-> FALSE] }

\* Bodies of the comment routes: complete, and with the text or the rating
\* left out or falsy.
CommentBodies ==
  { [comment |-> "fun", rating |-> 5], [comment |-> "meh", rating |-> 3],
    [comment |-> "fun", rating |-> UndefinedNum],
    [comment |-> "fun", rating |-> 0],
    [comment |-> Undefined, rating |-> 5] }

\* Bodies of a comment update: complete, and with the rating left out.
UpdateBodies ==
  { [comment |-> "meh", rating |-> 3],
    [comment |-> "meh", rating |-> UndefinedNum] }

VARIABLES users, arcades, comments, userSeq, arcadeSeq, commentSeq,
          now, ticks, tokens, regs, last

vars == <<users, arcades, comments, userSeq, arcadeSeq, commentSeq,
          now, ticks, tokens, regs, last>>

db == <<users, arcades, comments, userSeq, arcadeSeq, commentSeq>>

\* ------------------------------------------------------------ JavaScript
\* !v for a text field: undefined and the empty string are falsy.
FalsyText(v) == v = Undefined \/ v = ""

\* A check against undefined only, which lets the rating 0 through.
UndefinedOnly(v) == v = UndefinedNum

\* A check against 0 only, which lets a body without rating through.
ZeroOnly(v) == v = 0

\* !v for a numeric field: undefined and 0 are falsy.
FalsyNum(v) == v = UndefinedNum \/ v = 0

\* ---------------------------------------------------------------- bcrypt
\* bcrypt.hash(password, salt): a one-way value that embeds the salt.
BcryptHash(password, salt) ==
  [alg |-> "bcrypt", rounds |-> SaltRounds, salt |-> salt, of |-> password]

\* bcrypt.compare(password, hash): rehash with the stored salt and compare.
BcryptCompare(password, hash) == BcryptHash(password, hash.salt) = hash

\* ---------------------------------------------------------------- tokens
NoToken == [kind |-> "none"]

\* expiresIn: '1d' in place of '1h'.
JwtSignOneDay(userId, t) ==
  [kind |-> "jwt", userId |-> userId, iat |-> t, exp |-> t + 24 * ExpiresIn,
   sig |-> JWT_SECRET]

\* jwt.sign({ userId }, process.env.JWT_SECRET, { expiresIn: '1h' }) at time t.
JwtSign(userId, t) ==
  [kind |-> "jwt", userId |-> userId, iat |-> t, exp |-> t + ExpiresIn,
   sig |-> JWT_SECRET]

\* A token signed with another key.
ForgedToken == [kind |-> "jwt", userId |-> 1, iat |-> 0, exp |-> 1000000,
                sig |-> "forged"]

\* jwt.verify(token, secret) at time t: signature and expiry.
JwtVerify(tok, t) == tok.kind = "jwt" /\ tok.sig = JWT_SECRET /\ t < tok.exp

\* The auth gate: TRUE when the request may proceed to the route handler.
authenticateToken(tok, t) == tok # NoToken /\ JwtVerify(tok, t)

Credentials == tokens \cup {NoToken, ForgedToken}

\* The routes registered with authenticateToken in their chain.
ProtectedRoutes ==
  {"arcade.create", "arcade.update", "arcade.delete", "comment.create",
   "comment.update", "comment.delete", "profile"}

\* -------------------------------------------------------------- responses
NoBody == [kind |-> "none"]

\* A response, with the request it answers (route, body and path parameters,
\* bearer token), the time it was handled at and the number of SQL statements
\* the handler issued for it.
Resp(route, req, tok, status, msg, stmts, issued, rows) ==
  [route |-> route, req |-> req, tok |-> tok, at |-> now, status |-> status,
   msg |-> msg, stmts |-> stmts, issued |-> issued, rows |-> rows]

\* The gate's rejection: no handler runs, no statement is issued.
Rejected(route, tok) ==
  Resp(route, NoBody, tok, 401, "Unauthenticated", 0, NoToken, {})

\* catch (err) { res.status(500).send('Server error') }
ServerError(route, req, tok, stmts) ==
  Resp(route, req, tok, 500, "Server error", stmts, NoToken, {})

\* localStorage.setItem('token', token): what clients keep of the tokens sent.
Keep(tok) == IF Cardinality(tokens) < MaxTokens THEN tokens \cup {tok} ELSE tokens

Idle == [pc |-> "idle"]
Slots == 1..MaxInflight

\* ---------------------------------------------------------------- schema
\* users.email UNIQUE: an INSERT of a present email raises.
UniqueEmailViolated(email) == \E u \in users : u.email = email

\* A schema without the foreign keys.
FkUnchecked(user_id, arcade_id) == user_id # user_id

\* comments.user_id REFERENCES users, comments.arcade_id REFERENCES arcades.
FkViolated(user_id, arcade_id) ==
  \/ ~ \E u \in users : u.id = user_id
  \/ ~ \E a \in arcades : a.id = arcade_id

\* comments.arcade_id REFERENCES arcades without an ON DELETE clause: deleting
\* a referenced arcade raises (NO ACTION) instead of removing its comments.
OnDeleteCascade == FALSE

\* A schema whose rating column is nullable.
NotNullUnchecked(rating) == rating # rating

\* comments.rating NOT NULL.
NotNullViolated(rating) == rating = UndefinedNum

\* Rows of comments that reference arcade id.
Referencing(id) == {c \in comments : c.arcade_id = id}

\* ------------------------------------------------------------ statements
\* SELECT * FROM users WHERE email = $1
SelectUserByEmail(email) == {u \in users : u.email = email}

\* rows[0] of a non-empty result
FirstRow(rows) == CHOOSE r \in rows : TRUE

\* SELECT * FROM arcades WHERE id = $1
SelectArcadeById(id) == {a \in arcades : a.id = id}

\* The values of name and address bound to each other's placeholder.
ArcadeRowSwapped(id, body) ==
  [id |-> id, name |-> body.address, address |-> body.name,
   days_open |-> body.days_open, hours_of_operation |-> body.hours_of_operation,
   serves_alcohol |-> body.serves_alcohol]

\* The row of an INSERT or UPDATE of arcades: the five fields of the body, as
\* given, under the id.
ArcadeRow(id, body) ==
  [id |-> id, name |-> body.name, address |-> body.address,
   days_open |-> body.days_open, hours_of_operation |-> body.hours_of_operation,
   serves_alcohol |-> body.serves_alcohol]

RECURSIVE SumRatings(_)
SumRatings(rows) ==
  IF rows = {} THEN 0
  ELSE LET r == CHOOSE x \in rows : TRUE
       IN r.rating + SumRatings(rows \ {r})

\* A truncation in place of the rounding.
TruncTenths(sum, n) == (10 * sum) \div n

\* ROUND(sum / n, 1) in tenths, halves rounded away from zero (sum >= 0, n > 0).
RoundTenths(sum, n) == (20 * sum + n) \div (2 * n)

\* arcades LEFT JOIN comments ON arcades.id = comments.arcade_id: pairs of an
\* arcade and a matching comment, and an arcade without one paired with NULL.
NullComment == [id |-> 0, rating |-> UndefinedNum]
LeftJoin ==
  {j \in arcades \X comments : j[1].id = j[2].arcade_id}
  \cup {<<a, NullComment>> : a \in {x \in arcades : Referencing(x.id) = {}}}

\* COALESCE(ROUND(AVG(comments.rating), 1), 0) over one group; AVG skips NULL
\* and is NULL over no value.  The result is in tenths (40 stands for 4.0).
AverageRating(group) ==
  LET rated == {j[2] : j \in {x \in group : x[2].rating # UndefinedNum}}
  IN IF rated = {} THEN 0
     ELSE RoundTenths(SumRatings(rated), Cardinality(rated))

\* SELECT arcades.*, ... AS average_rating FROM ... GROUP BY arcades.id
SelectArcadesWithAverage ==
  LET groups == {j[1].id : j \in LeftJoin}
      Group(g) == {j \in LeftJoin : j[1].id = g}
      Arc(g) == (CHOOSE j \in Group(g) : TRUE)[1]
  IN { [id |-> g, name |-> Arc(g).name, address |-> Arc(g).address,
        days_open |-> Arc(g).days_open,
        hours_of_operation |-> Arc(g).hours_of_operation,
        serves_alcohol |-> Arc(g).serves_alcohol,
        average_rating |-> AverageRating(Group(g))] : g \in groups }

\* SELECT comments.*, arcades.name as arcade_name FROM comments JOIN arcades
\*   ON comments.arcade_id = arcades.id WHERE comments.user_id = $1
SelectReviews(userId) ==
  { [id |-> j[1].id, user_id |-> j[1].user_id, arcade_id |-> j[1].arcade_id,
     comment |-> j[1].comment, rating |-> j[1].rating, arcade_name |-> j[2].name] :
    j \in {x \in comments \X arcades :
             x[1].arcade_id = x[2].id /\ x[1].user_id = userId} }

\* A WHERE clause without the user_id predicate.
CommentById(commentId, userId) == {c \in comments : c.id = commentId}

\* UPDATE/DELETE ... WHERE id = $1 AND user_id = $2: the rows both predicates match.
OwnedComment(commentId, userId) ==
  {c \in comments : c.id = commentId /\ c.user_id = userId}

\* ------------------------------------------------------------------ state
Init ==
  /\ users = {} /\ arcades = {} /\ comments = {}
  /\ userSeq = 0 /\ arcadeSeq = 0 /\ commentSeq = 0
  /\ now = 0 /\ ticks = 0
  /\ tokens = {}
  /\ regs = [s \in Slots |-> Idle]
  /\ last = Resp("none", NoBody, NoToken, 0, "", 0, NoToken, {})

Suspended == {s \in Slots : regs[s] # Idle}

\* ------------------------------------------------------------------- auth
\* POST /api/auth/register, up to the await of the existence SELECT's result.
RegisterSelect(s, username, email, password) ==
  LET req == [username |-> username, email |-> email, password |-> password]
      missing == FalsyText(username) \/ FalsyText(email) \/ FalsyText(password)
      userExists == SelectUserByEmail(email)
      proceed == ~missing /\ userExists = {}
  IN /\ regs[s] = Idle
     /\ \A r \in Slots : r < s => regs[r] # Idle
     /\ proceed => userSeq + Cardinality(Suspended) < MaxUserSeq
     /\ regs' = IF proceed THEN [regs EXCEPT ![s] = [pc |-> "hash", req |-> req]]
                ELSE regs
     /\ last' = IF missing
                  THEN Resp("register", req, NoToken, 400, "All fields are required",
                            0, NoToken, {})
                ELSE IF userExists # {}
                  THEN Resp("register", req, NoToken, 400, "User already exists",
                            1, NoToken, {})
                ELSE last
     /\ UNCHANGED <<db, now, ticks, tokens>>

\* POST /api/auth/register, from the hash to the response.
RegisterInsert(s, salt) ==
  /\ regs[s] # Idle
  /\ LET req == regs[s].req
         hashedPassword == BcryptHash(req.password, salt)
         id == userSeq + 1
         row == [id |-> id, username |-> req.username, email |-> req.email,
                 password |-> hashedPassword]
         raised == UniqueEmailViolated(req.email)
         token == JwtSign(id, now)
     IN /\ userSeq' = id
        /\ users' = IF raised THEN users ELSE users \cup {row}
        /\ tokens' = IF raised THEN tokens ELSE Keep(token)
        /\ last' = IF raised THEN ServerError("register", req, NoToken, 2)
                   ELSE Resp("register", req, NoToken, 201, "", 2, token, {row})
  /\ regs' = [regs EXCEPT ![s] = Idle]
  /\ UNCHANGED <<arcades, comments, arcadeSeq, commentSeq, now, ticks>>

\* A login that does not return on !isMatch.
LoginWithoutCompare(email, password) ==
  LET req == [email |-> email, password |-> password]
      missing == FalsyText(email) \/ FalsyText(password)
      user == SelectUserByEmail(email)
      token == JwtSign(FirstRow(user).id, now)
  IN /\ last' = IF missing
                  THEN Resp("login", req, NoToken, 400,
                            "Both email and password are required", 0, NoToken, {})
                ELSE IF user = {}
                  THEN Resp("login", req, NoToken, 400, "Invalid credentials",
                            1, NoToken, {})
                ELSE Resp("login", req, NoToken, 200, "", 1, token, {FirstRow(user)})
     /\ tokens' = IF ~missing /\ user # {} THEN Keep(token) ELSE tokens
     /\ UNCHANGED <<db, now, ticks, regs>>

\* POST /api/auth/login
Login(email, password) ==
  LET req == [email |-> email, password |-> password]
      missing == FalsyText(email) \/ FalsyText(password)
      user == SelectUserByEmail(email)
      isMatch == user # {} /\ BcryptCompare(password, FirstRow(user).password)
      token == JwtSign(FirstRow(user).id, now)
  IN /\ last' = IF missing
                  THEN Resp("login", req, NoToken, 400,
                            "Both email and password are required", 0, NoToken, {})
                ELSE IF user = {} \/ ~isMatch
                  THEN Resp("login", req, NoToken, 400, "Invalid credentials",
                            1, NoToken, {})
                ELSE Resp("login", req, NoToken, 200, "", 1, token, {FirstRow(user)})
     /\ tokens' = IF ~missing /\ isMatch THEN Keep(token) ELSE tokens
     /\ UNCHANGED <<db, now, ticks, regs>>

\* handleLogout: localStorage.removeItem('token')
Logout(tok) ==
  /\ tok \in tokens
  /\ tokens' = tokens \ {tok}
  /\ UNCHANGED <<db, now, ticks, regs, last>>

\* ------------------------------------------------------------------- gate
\* A request to a protected route whose token the gate does not verify: the
\* gate answers it and the route handler does not run.
Unauthenticated(route, tok) ==
  /\ ~authenticateToken(tok, now)
  /\ last' = Rejected(route, tok)
  /\ UNCHANGED <<db, now, ticks, tokens, regs>>

\* ---------------------------------------------------------------- arcades
\* POST /api/arcades
CreateArcade(tok, body) ==
  LET id == arcadeSeq + 1
      row == ArcadeRow(id, body)
  IN /\ authenticateToken(tok, now)
     /\ arcadeSeq < MaxArcadeSeq
     /\ arcadeSeq' = id
     /\ arcades' = arcades \cup {row}
     /\ last' = Resp("arcade.create", body, tok, 200, "", 1, NoToken, {row})
     /\ UNCHANGED <<users, comments, userSeq, commentSeq, now, ticks, tokens, regs>>

\* GET /api/arcades
ListArcades ==
  /\ last' = Resp("arcade.list", NoBody, NoToken, 200, "", 1, NoToken,
                  SelectArcadesWithAverage)
  /\ UNCHANGED <<db, now, ticks, tokens, regs>>

\* GET /api/arcades/:id
GetArcade(id) ==
  LET arcade == SelectArcadeById(id)
      req == [id |-> id]
  IN /\ last' = IF arcade = {}
                  THEN Resp("arcade.get", req, NoToken, 404, "Arcade not found",
                            1, NoToken, {})
                ELSE Resp("arcade.get", req, NoToken, 200, "", 1, NoToken,
                          {FirstRow(arcade)})
     /\ UNCHANGED <<db, now, ticks, tokens, regs>>

\* PUT /api/arcades/:id
UpdateArcade(tok, id, body) ==
  LET req == [id |-> id, body |-> body]
      target == SelectArcadeById(id)
      row == ArcadeRow(id, body)
  IN /\ authenticateToken(tok, now)
     /\ arcades' = IF target # {} THEN (arcades \ target) \cup {row} ELSE arcades
     /\ last' = IF target = {}
                  THEN Resp("arcade.update", req, tok, 404, "Arcade not found",
                            1, NoToken, {})
                ELSE Resp("arcade.update", req, tok, 200, "", 1, NoToken, {row})
     /\ UNCHANGED <<users, comments, userSeq, arcadeSeq, commentSeq, now, ticks,
                    tokens, regs>>

\* The route registered without authenticateToken.
DeleteArcadeUngated(tok, id) ==
  LET req == [id |-> id]
      target == SelectArcadeById(id)
      raised == target # {} /\ Referencing(id) # {} /\ ~OnDeleteCascade
      done == target # {} /\ ~raised
  IN /\ arcades' = IF done THEN arcades \ target ELSE arcades
     /\ comments' = IF done THEN comments \ Referencing(id) ELSE comments
     /\ last' = IF raised THEN ServerError("arcade.delete", req, tok, 1)
                ELSE IF target = {}
                  THEN Resp("arcade.delete", req, tok, 404, "Arcade not found",
                            1, NoToken, {})
                ELSE Resp("arcade.delete", req, tok, 200,
                          "Arcade deleted successfully", 1, NoToken, target)
     /\ UNCHANGED <<users, userSeq, arcadeSeq, commentSeq, now, ticks, tokens, regs>>

\* DELETE /api/arcades/:id
DeleteArcade(tok, id) ==
  LET req == [id |-> id]
      target == SelectArcadeById(id)
      raised == target # {} /\ Referencing(id) # {} /\ ~OnDeleteCascade
      done == target # {} /\ ~raised
  IN /\ authenticateToken(tok, now)
     /\ arcades' = IF done THEN arcades \ target ELSE arcades
     /\ comments' = IF done THEN comments \ Referencing(id) ELSE comments
     /\ last' = IF raised THEN ServerError("arcade.delete", req, tok, 1)
                ELSE IF target = {}
                  THEN Resp("arcade.delete", req, tok, 404, "Arcade not found",
                            1, NoToken, {})
                ELSE Resp("arcade.delete", req, tok, 200,
                          "Arcade deleted successfully", 1, NoToken, target)
     /\ UNCHANGED <<users, userSeq, arcadeSeq, commentSeq, now, ticks, tokens, regs>>

\* --------------------------------------------------------------- comments
\* POST /api/arcades/:id/comments
CreateComment(tok, id, comment, rating) ==
  LET req == [id |-> id, comment |-> comment, rating |-> rating]
      missing == FalsyText(comment) \/ FalsyNum(rating)
      userId == tok.userId
      cid == commentSeq + 1
      row == [id |-> cid, user_id |-> userId, arcade_id |-> id,
              comment |-> comment, rating |-> rating]
      raised == NotNullViolated(rating) \/ FkViolated(userId, id)
      username == FirstRow({u \in users : u.id = userId}).username
  IN /\ authenticateToken(tok, now)
     /\ ~missing => commentSeq < MaxCommentSeq
     /\ commentSeq' = IF missing THEN commentSeq ELSE cid
     /\ comments' = IF missing \/ raised THEN comments ELSE comments \cup {row}
     /\ last' = IF missing
                  THEN Resp("comment.create", req, tok, 400,
                            "Both comment and rating are required", 0, NoToken, {})
                ELSE IF raised THEN ServerError("comment.create", req, tok, 1)
                ELSE Resp("comment.create", req, tok, 200, "", 1, NoToken,
                          {[id |-> cid, comment |-> comment, rating |-> rating,
                            username |-> username]})
     /\ UNCHANGED <<users, arcades, userSeq, arcadeSeq, now, ticks, tokens, regs>>

\* GET /api/profile
Profile(tok) ==
  /\ authenticateToken(tok, now)
  /\ last' = Resp("profile", NoBody, tok, 200, "", 1, NoToken,
                  SelectReviews(tok.userId))
  /\ UNCHANGED <<db, now, ticks, tokens, regs>>

\* PUT /api/comments/:commentId
UpdateComment(tok, commentId, comment, rating) ==
  LET req == [id |-> commentId, comment |-> comment, rating |-> rating]
      target == OwnedComment(commentId, tok.userId)
      raised == target # {} /\ NotNullViolated(rating)
      updated == {[c EXCEPT !.comment = comment, !.rating = rating] : c \in target}
  IN /\ authenticateToken(tok, now)
     /\ comments' = IF raised THEN comments ELSE (comments \ target) \cup updated
     /\ last' = IF raised THEN ServerError("comment.update", req, tok, 1)
                ELSE IF target = {}
                  THEN Resp("comment.update", req, tok, 404,
                            "Comment not found or not authorized", 1, NoToken, {})
                ELSE Resp("comment.update", req, tok, 200, "", 1, NoToken, updated)
     /\ UNCHANGED <<users, arcades, userSeq, arcadeSeq, commentSeq, now, ticks,
                    tokens, regs>>

\* DELETE /api/comments/:commentId
DeleteComment(tok, commentId) ==
  LET req == [id |-> commentId]
      target == OwnedComment(commentId, tok.userId)
  IN /\ authenticateToken(tok, now)
     /\ comments' = comments \ target
     /\ last' = IF target = {}
                  THEN Resp("comment.delete", req, tok, 404,
                            "Comment not found or not authorized", 1, NoToken, {})
                ELSE Resp("comment.delete", req, tok, 200,
                          "Comment deleted successfully", 1, NoToken, target)
     /\ UNCHANGED <<users, arcades, userSeq, arcadeSeq, commentSeq, now, ticks,
                    tokens, regs>>

\* ------------------------------------------------------------------ clock
Tick(d) ==
  /\ ticks < MaxTicks
  /\ ticks' = ticks + 1
  /\ now' = now + d
  /\ UNCHANGED <<db, tokens, regs, last>>

ArcadeIds == 1..MaxArcadeSeq
CommentIds == 1..MaxCommentSeq

Next ==
  \/ \E s \in Slots, u \in Usernames, e \in Emails, p \in Passwords :
       RegisterSelect(s, u, e, p)
  \/ \E s \in Slots, salt \in Salts : RegisterInsert(s, salt)
  \/ \E e \in Emails, p \in Guesses : Login(e, p)
  \/ \E tok \in tokens : Logout(tok)
  \/ \E tok \in Credentials, route \in ProtectedRoutes : Unauthenticated(route, tok)
  \/ \E tok \in Credentials, body \in ArcadeBodies : CreateArcade(tok, body)
  \/ ListArcades
  \/ \E id \in ArcadeIds : GetArcade(id)
  \/ \E tok \in Credentials, id \in ArcadeIds, body \in ArcadeBodies :
       UpdateArcade(tok, id, body)
  \/ \E tok \in Credentials, id \in ArcadeIds : DeleteArcade(tok, id)
  \/ \E tok \in Credentials, id \in ArcadeIds, b \in CommentBodies :
       CreateComment(tok, id, b.comment, b.rating)
  \/ \E tok \in Credentials : Profile(tok)
  \/ \E tok \in Credentials, id \in CommentIds, b \in UpdateBodies :
       UpdateComment(tok, id, b.comment, b.rating)
  \/ \E tok \in Credentials, id \in CommentIds : DeleteComment(tok, id)
  \/ \E d \in Advance : Tick(d)

Spec == Init /\ [][Next]_vars

\* Registration, login and comment creation, the routes that validate their
\* body, from the empty database (no arcade exists, so a complete comment
\* fails on its foreign key).
NextAccounts ==
  \/ \E s \in Slots, u \in Usernames, e \in Emails, p \in Passwords :
       RegisterSelect(s, u, e, p)
  \/ \E s \in Slots, salt \in Salts : RegisterInsert(s, salt)
  \/ \E e \in Emails, p \in Guesses : Login(e, p)
  \/ \E tok \in Credentials : Unauthenticated("comment.create", tok)
  \/ \E tok \in Credentials, id \in ArcadeIds, b \in CommentBodies :
       CreateComment(tok, id, b.comment, b.rating)

SpecAccounts == Init /\ [][NextAccounts]_vars

Ann == [id |-> 1, username |-> "ann", email |-> "a@x",
        password |-> BcryptHash("pw1", "s1")]
Bob == [id |-> 2, username |-> "ann", email |-> "b@x",
        password |-> BcryptHash("pw1", "s2")]

\* One user, just registered: the client holds the token of the response.
InitRegistered ==
  /\ users = {Ann} /\ userSeq = 1
  /\ arcades = {} /\ comments = {} /\ arcadeSeq = 0 /\ commentSeq = 0
  /\ now = 0 /\ ticks = 0
  /\ tokens = {JwtSign(1, 0)}
  /\ regs = [s \in Slots |-> Idle]
  /\ last = Resp("register", [username |-> "ann", email |-> "a@x", password |-> "pw1"],
                 NoToken, 201, "", 2, JwtSign(1, 0), {Ann})

\* Logins, logouts and a protected route as the clock advances.
NextToken ==
  \/ \E e \in Emails, p \in Guesses : Login(e, p)
  \/ \E tok \in tokens : Logout(tok)
  \/ \E tok \in Credentials : Unauthenticated("profile", tok)
  \/ \E tok \in Credentials : Profile(tok)
  \/ \E d \in Advance : Tick(d)

SpecToken == InitRegistered /\ [][NextToken]_vars

\* The arcade routes, by the registered user and by callers without a
\* verifiable token.
NextArcades ==
  \/ \E tok \in Credentials,
        route \in {"arcade.create", "arcade.update", "arcade.delete"} :
       Unauthenticated(route, tok)
  \/ \E tok \in Credentials, body \in ArcadeBodies : CreateArcade(tok, body)
  \/ ListArcades
  \/ \E id \in ArcadeIds : GetArcade(id)
  \/ \E tok \in Credentials, id \in ArcadeIds, body \in ArcadeBodies :
       UpdateArcade(tok, id, body)
  \/ \E tok \in Credentials, id \in ArcadeIds : DeleteArcade(tok, id)

SpecArcades == InitRegistered /\ [][NextArcades]_vars

\* One user registered at time 0 and logged in again one hour later: the
\* client holds the expired token and the fresh one.
InitRelogged ==
  /\ users = {Ann} /\ userSeq = 1
  /\ arcades = {} /\ comments = {} /\ arcadeSeq = 0 /\ commentSeq = 0
  /\ now = ExpiresIn /\ ticks = 2
  /\ tokens = {JwtSign(1, 0), JwtSign(1, ExpiresIn)}
  /\ regs = [s \in Slots |-> Idle]
  /\ last = Resp("login", [email |-> "a@x", password |-> "pw1"], NoToken, 200, "",
                 1, JwtSign(1, ExpiresIn), {Ann})

Served == CHOOSE b \in ArcadeBodies : b.serves_alcohol
Dry == CHOOSE b \in ArcadeBodies : ~b.serves_alcohol
Praise == CHOOSE b \in CommentBodies : b.rating = 5 /\ b.comment = "fun"
Unrated == CHOOSE b \in CommentBodies : b.rating = UndefinedNum

\* Every route, protected or not, called with the fresh token, the expired
\* token, a forged token and no token; one body of each kind.
NextGate ==
  \/ \E tok \in Credentials, route \in ProtectedRoutes : Unauthenticated(route, tok)
  \/ \E tok \in Credentials : CreateArcade(tok, Served)
  \/ ListArcades
  \/ \E id \in ArcadeIds : GetArcade(id)
  \/ \E tok \in Credentials, id \in ArcadeIds : UpdateArcade(tok, id, Dry)
  \/ \E tok \in Credentials, id \in ArcadeIds : DeleteArcade(tok, id)
  \/ \E tok \in Credentials, id \in ArcadeIds, b \in {Praise, Unrated} :
       CreateComment(tok, id, b.comment, b.rating)
  \/ \E tok \in Credentials : Profile(tok)
  \/ \E tok \in Credentials, id \in CommentIds :
       UpdateComment(tok, id, Praise.comment, Praise.rating)
  \/ \E tok \in Credentials, id \in CommentIds : DeleteComment(tok, id)

SpecGate == InitRelogged /\ [][NextGate]_vars

\* Two users registered and logged in at time 0, and one arcade created.
InitOwner ==
  /\ users = {Ann, Bob} /\ userSeq = 2
  /\ arcades = {ArcadeRow(1, Served)}
  /\ arcadeSeq = 1
  /\ comments = {} /\ commentSeq = 0
  /\ now = 0 /\ ticks = 0
  /\ tokens = {JwtSign(1, 0), JwtSign(2, 0)}
  /\ regs = [s \in Slots |-> Idle]
  /\ last = Resp("arcade.create", Served, JwtSign(1, 0), 200, "", 1, NoToken,
                 {ArcadeRow(1, Served)})

\* The comment routes and the deletion of the arcade, by the two users.
NextComments ==
  \/ \E tok \in Credentials, id \in ArcadeIds, b \in CommentBodies :
       CreateComment(tok, id, b.comment, b.rating)
  \/ \E tok \in Credentials, id \in CommentIds, b \in UpdateBodies :
       UpdateComment(tok, id, b.comment, b.rating)
  \/ \E tok \in Credentials, id \in CommentIds : DeleteComment(tok, id)
  \/ \E tok \in Credentials, id \in ArcadeIds : DeleteArcade(tok, id)

SpecComments == InitOwner /\ [][NextComments]_vars

\* The arcade list over every database of two arcades and up to MaxRated
\* comments with one to five stars, read after a get-by-id.
Placements == {<<0, 0>>} \cup ({1, 2} \X (1..5))

InitRating ==
  /\ users = {Ann} /\ userSeq = 1
  /\ arcades = {ArcadeRow(1, Served), ArcadeRow(2, Dry)}
  /\ arcadeSeq = 2
  /\ \E f \in [1..MaxRated -> Placements] :
       comments = {[id |-> k, user_id |-> 1, arcade_id |-> f[k][1],
                    comment |-> "fun", rating |-> f[k][2]] :
                   k \in {i \in 1..MaxRated : f[i][1] # 0}}
  /\ commentSeq = MaxRated
  /\ now = 0 /\ ticks = 0
  /\ tokens = {JwtSign(1, 0)}
  /\ regs = [s \in Slots |-> Idle]
  /\ last = Resp("arcade.get", [id |-> 1], NoToken, 200, "", 1, NoToken,
                 {ArcadeRow(1, Served)})

NextRating == ListArcades

SpecRating == InitRating /\ [][NextRating]_vars

\* ----------------------------------------------------------------- claims
\* A field that is left out of a body, or is empty.
AbsentText(v) == v \in {Undefined, ""}
AbsentNum(v) == v \in {UndefinedNum, 0}

Complete(req) ==
  /\ ~AbsentText(req.email) /\ ~AbsentText(req.password)
  /\ "username" \in DOMAIN req => ~AbsentText(req.username)

Ids(rows) == {r.id : r \in rows}

NoDuplicateEmail(rows) ==
  \A u, v \in rows : u.email = v.email => u = v

\* C1: a complete register request answered while its email is in the users
\* table is answered 400 'User already exists', also when its handler ran its
\* SELECT before another handler's INSERT of that email, and the users table
\* never holds two rows with one email.
C1_RegisterConflict ==
  [][ /\ NoDuplicateEmail(users')
      /\ (last' # last /\ last'.route = "register" /\ Complete(last'.req)
          /\ UniqueEmailViolated(last'.req.email))
         => (last'.status = 400 /\ last'.msg = "User already exists") ]_vars

C5_Login ==
  (last.route = "login" /\ Complete(last.req)) =>
    IF \E u \in users : u.email = last.req.email /\ u.password.of = last.req.password
      THEN /\ last.status = 200
           /\ last.issued # NoToken
           /\ \E u \in users : u.email = last.req.email /\ last.issued.userId = u.id
           /\ authenticateToken(last.issued, last.at)
      ELSE /\ last.status = 400 /\ last.msg = "Invalid credentials"
           /\ last.issued = NoToken

\* A registered user was refused with a wrong password while a second user
\* was registered too.
C5_Witness ==
  /\ last.route = "login" /\ last.status = 400 /\ last.msg = "Invalid credentials"
  /\ \E u \in users : u.email = last.req.email /\ u.id = 2
  /\ Cardinality(users) = 2

\* C6: a register request without username, email or password, a login
\* request without email or password and a comment-create request that passed
\* the gate without text or rating get status 400, no statement is issued for
\* them and the database is unchanged.
C6_MissingFields ==
  [][ (/\ last' # last
       /\ \/ last'.route = "register" /\ ~Complete(last'.req)
          \/ last'.route = "login" /\ ~Complete(last'.req)
          \/ /\ last'.route = "comment.create" /\ last'.status # 401
             /\ (AbsentText(last'.req.comment) \/ AbsentNum(last'.req.rating)))
      => (last'.status = 400 /\ last'.stmts = 0 /\ db' = db) ]_vars

\* A comment-create by a logged-in user without a rating was refused.
C6_Witness ==
  /\ last.route = "comment.create" /\ last.status = 400
  /\ last.req.rating = UndefinedNum
  /\ users # {}

\* C3: a request to a protected route without a verifiable token is rejected
\* by the gate: no statement is issued and the database is unchanged; the
\* arcade list and get-by-id carry no token and are never rejected.
C3_AuthGate ==
  [][ last' # last =>
        /\ (last'.route \in ProtectedRoutes /\ ~authenticateToken(last'.tok, now))
             => (last'.status = 401 /\ last'.stmts = 0 /\ db' = db)
        /\ last'.route \in {"arcade.list", "arcade.get"}
             => (last'.tok = NoToken /\ last'.status \in {200, 404}) ]_vars

\* An expired token was refused the deletion of an existing comment.
C3_Witness ==
  /\ last.route = "comment.delete" /\ last.status = 401
  /\ last.tok # NoToken /\ last.tok.sig = JWT_SECRET
  /\ comments # {}

RECURSIVE RatingTotal(_, _)
RatingTotal(id, k) ==
  IF k = 0 THEN 0
  ELSE RatingTotal(id, k - 1)
       + (IF \E c \in Referencing(id) : c.id = k
            THEN (CHOOSE c \in Referencing(id) : c.id = k).rating
          ELSE 0)

\* C9: the arcade list holds every arcade exactly once, with its fields and
\* with average_rating the tenth nearest to the mean of the ratings of its
\* comments, 0 when it has none ([3,5] gives 4.0, a single 5 gives 5.0).
C9_ArcadeList ==
  last.route = "arcade.list" =>
    /\ Ids(last.rows) = Ids(arcades)
    /\ \A a \in arcades :
         LET rows == {r \in last.rows : r.id = a.id}
             n == Cardinality(Referencing(a.id))
             total == RatingTotal(a.id, commentSeq)
         IN /\ Cardinality(rows) = 1
            /\ \A r \in rows :
                 /\ ArcadeRow(r.id, r) = a
                 /\ n = 0 => r.average_rating = 0
                 /\ n > 0 =>
                      /\ 2 * (10 * total - n * r.average_rating) <= n
                      /\ 2 * (n * r.average_rating - 10 * total) <= n
                 /\ (n = 2 /\ total = 8) => r.average_rating = 40
                 /\ (n = 1 /\ total = 5) => r.average_rating = 50

\* The list shows an arcade rated 3 and 5 at 4.0 and an arcade without
\* comments at 0.
C9_Witness ==
  /\ last.route = "arcade.list"
  /\ \E r \in last.rows : r.average_rating = 0 /\ Referencing(r.id) = {}
  /\ \E r \in last.rows :
       /\ r.average_rating = 40
       /\ {c.rating : c \in Referencing(r.id)} = {3, 5}

\* C10: a created arcade is stored under a fresh id with the five fields of
\* the request and is returned as stored; get-by-id returns the stored row;
\* only an update or a delete of that id changes or removes a stored row; and
\* GET, PUT and DELETE for an id that is not in the table are answered 404
\* 'Arcade not found' and change nothing.
C10_ArcadeRoundTrip ==
  [][ last' # last =>
        /\ (last'.route = "arcade.create" /\ last'.status = 200) =>
             \E r \in arcades' :
               /\ last'.rows = {r}
               /\ r.id \notin Ids(arcades)
               /\ arcades' = arcades \cup {r}
               /\ [f \in DOMAIN last'.req |-> r[f]] = last'.req
        /\ last'.route = "arcade.get" =>
             \/ /\ last'.status = 200
                /\ \E a \in arcades : a.id = last'.req.id /\ last'.rows = {a}
             \/ /\ last'.status = 404 /\ last'.msg = "Arcade not found"
                /\ last'.req.id \notin Ids(arcades)
        /\ \A a \in arcades : a \notin arcades' =>
             /\ last'.route \in {"arcade.update", "arcade.delete"}
             /\ last'.status = 200 /\ last'.req.id = a.id
        /\ (/\ last'.route \in {"arcade.update", "arcade.delete"}
            /\ last'.status # 401
            /\ last'.req.id \notin Ids(arcades)) =>
             (last'.status = 404 /\ last'.msg = "Arcade not found" /\ db' = db) ]_vars

\* An arcade read back by id while another arcade had been updated.
C10_Witness ==
  /\ last.route = "arcade.get" /\ last.status = 200
  /\ \E a \in arcades : a.id = last.req.id /\ a.serves_alcohol
  /\ \E a \in arcades : a.id # last.req.id /\ ~a.serves_alcohol
  /\ arcadeSeq = 2

\* C2: an update or delete of a comment by an authenticated user who is not
\* its author is answered 404 'Comment not found or not authorized' and
\* leaves the comment as it is; a comment is changed or removed only by a
\* request of its author.
C2_CommentOwnership ==
  [][ last' # last =>
        /\ \A c \in comments :
             (/\ last'.route \in {"comment.update", "comment.delete"}
              /\ authenticateToken(last'.tok, now)
              /\ last'.req.id = c.id /\ last'.tok.userId # c.user_id)
             => /\ last'.status = 404
                /\ last'.msg = "Comment not found or not authorized"
                /\ c \in comments'
        /\ \A c \in comments : c \notin comments' =>
             /\ last'.route \in {"comment.update", "comment.delete"}
             /\ last'.tok.userId = c.user_id ]_vars

\* A user was refused the deletion of another user's comment.
C2_Witness ==
  /\ last.route = "comment.delete" /\ last.status = 404
  /\ \E c \in comments : c.id = last.req.id /\ c.user_id # last.tok.userId

=============================================================================
